---- MODULE Spec2Model ----
(***************************************************************************)
(* ssrf-canary (src/app.py): the token endpoint /c/<token>, its sliding-   *)
(* window rate limiter, the address classification, the Event store and    *)
(* the fire-and-forget alert worker, as a state machine.                   *)
(*                                                                         *)
(* Time is counted in whole ticks of time.time().  RATE_LIMIT_MAX and      *)
(* RATE_LIMIT_WINDOW are read from the environment (src/app.py:31-32), so  *)
(* they are part of the state the process is constructed in; the           *)
(* specifications below run RATE_LIMIT_MAX=1 and RATE_LIMIT_WINDOW=2.       *)
(***************************************************************************)
EXTENDS Integers, Sequences, FiniteSets, TLC

VARIABLES
    env,            \* the settings read with os.getenv at import
    clock,          \* time.time() / datetime.utcnow()
    rate_counters,  \* token -> list of hit timestamps
    rate_lock,      \* 0 when free, else the thread holding it
    req,            \* per request thread: position, request, locals, response
    tokens,         \* the tokens table
    events,         \* the events table, in insertion order
    worker          \* per request: the alert thread started for it

vars == <<env, clock, rate_counters, rate_lock, req, tokens, events, worker>>

\* ---- bounds of the model ----
MaxReq == 3
MaxTime == 3
\* requests the token endpoint receives one after the other
MaxHits == 2
\* requests the token endpoint receives concurrently
MaxConc == 2

\* ---- configuration (os.getenv) ----
RATE_LIMIT_MAX == env.rate_limit_max
RATE_LIMIT_WINDOW == env.rate_limit_window

Reqs == 1..MaxReq
TokenStrs == {"tokA", "tokB"}

Min(a, b) == IF a <= b THEN a ELSE b

\* The state of one thread: its position and its locals.
\*   pc       where the thread is
\*   token    the key it was called with
\*   now      the local `now` of record_and_check_rate
\*   before   the key's sequence as the thread found it inside the lock
\*   nth      how many calls on the key had been recorded before, plus one
\*   ok_rate  the value record_and_check_rate returned
\*   http     the request: method, X-Forwarded-For, peer, Host, body
\*   t        whether Token.query...first() found a row
\*   tstatus  what the tokens table said about the token at that moment
\*   ev       the Event object built at lines 257-275
\*   committed  "yes" once db.session.commit() returned, "no" once it raised
\*   resp     the response sent, status 0 while there is none
NoXff == [present |-> FALSE, entries |-> <<>>]
NoBody == [bytes |-> 0, width |-> 1]
NoHttp == [method |-> "", xff |-> NoXff, peer |-> "", host |-> <<>>, body |-> NoBody]
NoResp == [status |-> 0, body |-> ""]
NoEvent ==
    [id |-> 0, hit |-> 0, token |-> "", method |-> "", xff |-> NoXff,
     host |-> <<>>, body_preview |-> 0, remote_addr |-> "", remote_host |-> "",
     suspicious |-> FALSE, raw_body_preview |-> 0]

IdleReq ==
    [pc |-> "idle", token |-> "", now |-> 0, before |-> <<>>, nth |-> 0,
     ok_rate |-> FALSE, http |-> NoHttp, t |-> FALSE, tstatus |-> "",
     ev |-> NoEvent, committed |-> "", resp |-> NoResp]

\* the thread has been through the locked section of record_and_check_rate
RateDone(r) == req[r].pc \notin {"idle", "rl_now", "rl_lock", "rl_body"}

\* the calls recorded so far on key k
HitsOn(k) == {r \in Reqs : RateDone(r) /\ req[r].token = k}

\* ---- record_and_check_rate (src/app.py:138-149) ----

\* while i < len(arr) and arr[i] < window_start: i += 1
RECURSIVE ExpiredPrefix(_, _, _)
ExpiredPrefix(arr, window_start, i) ==
    IF i < Len(arr) /\ arr[i + 1] < window_start
    THEN ExpiredPrefix(arr, window_start, i + 1)
    ELSE i

\* del arr[:i]
DelPrefix(arr, i) == SubSeq(arr, i + 1, Len(arr))

\* (a faulty variant: `if` for `while`, one expired timestamp dropped per call)
PrunedOne(arr, now) ==
    IF Len(arr) > 0 /\ arr[1] < now - RATE_LIMIT_WINDOW THEN Tail(arr) ELSE arr

\* lines 142-147: the sequence after the expired prefix is dropped
Pruned(arr, now) ==
    DelPrefix(arr, ExpiredPrefix(arr, now - RATE_LIMIT_WINDOW, 0))

\* (a faulty variant: a hit over the limit is not recorded)
RecordedIfAllowed(arr, now) ==
    IF Len(Pruned(arr, now)) < RATE_LIMIT_MAX
    THEN Append(Pruned(arr, now), now)
    ELSE Pruned(arr, now)

\* line 148: the sequence the call leaves behind
Recorded(arr, now) == Append(Pruned(arr, now), now)

\* (a faulty variant: `<` for `<=`)
AllowedBelow(arr) == Len(arr) < RATE_LIMIT_MAX

\* line 149
Allowed(arr) == Len(arr) <= RATE_LIMIT_MAX

\* `with rate_lock:` can be entered
LockFree == rate_lock = 0

\* time passes
Tick ==
    /\ clock < MaxTime
    /\ clock' = clock + 1
    /\ UNCHANGED <<env, rate_counters, rate_lock, req, tokens, events, worker>>

\* a thread calls record_and_check_rate(token); the threads start in the order
\* of their numbers and the first call is on tokA (threads and keys are
\* interchangeable)
RateCall(r, token) ==
    /\ req[r].pc = "idle"
    /\ \A q \in Reqs : q < r => req[q].pc # "idle"
    /\ r = 1 => token = "tokA"
    /\ req' = [req EXCEPT ![r].pc = "rl_now", ![r].token = token]
    /\ UNCHANGED <<env, clock, rate_counters, rate_lock, tokens, events, worker>>

\* line 139: now = time.time(), before the lock is taken
RateNow(r) ==
    /\ req[r].pc = "rl_now"
    /\ req' = [req EXCEPT ![r].pc = "rl_lock", ![r].now = clock]
    /\ UNCHANGED <<env, clock, rate_counters, rate_lock, tokens, events, worker>>

\* line 140: with rate_lock
RateAcquire(r) ==
    /\ req[r].pc = "rl_lock"
    /\ LockFree
    /\ rate_lock' = r
    /\ req' = [req EXCEPT ![r].pc = "rl_body"]
    /\ UNCHANGED <<env, clock, rate_counters, tokens, events, worker>>

\* (a faulty variant: one sequence shared by all keys)
RateBodyShared(r) ==
    /\ req[r].pc = "rl_body"
    /\ rate_lock = r
    /\ LET arr == rate_counters[req[r].token]
           new == Recorded(arr, req[r].now)
       IN /\ rate_counters' = [k \in TokenStrs |-> new]
          /\ req' = [req EXCEPT ![r].pc = "rl_unlock",
                                ![r].before = arr,
                                ![r].nth = Cardinality(HitsOn(req[r].token)) + 1,
                                ![r].ok_rate = Allowed(new)]
    /\ UNCHANGED <<env, clock, rate_lock, tokens, events, worker>>

\* lines 141-149, inside the lock
RateBody(r) ==
    /\ req[r].pc = "rl_body"
    /\ rate_lock = r
    /\ LET arr == rate_counters[req[r].token]
           new == Recorded(arr, req[r].now)
       IN /\ rate_counters' = [rate_counters EXCEPT ![req[r].token] = new]
          /\ req' = [req EXCEPT ![r].pc = "rl_unlock",
                                ![r].before = arr,
                                ![r].nth = Cardinality(HitsOn(req[r].token)) + 1,
                                ![r].ok_rate = Allowed(new)]
    /\ UNCHANGED <<env, clock, rate_lock, tokens, events, worker>>

\* leaving the with block: the lock is released and the call returns
RateRelease(r, next) ==
    /\ req[r].pc = "rl_unlock"
    /\ rate_lock = r
    /\ rate_lock' = 0
    /\ req' = [req EXCEPT ![r].pc = next]
    /\ UNCHANGED <<env, clock, rate_counters, tokens, events, worker>>

\* ---- addresses (src/app.py:92-126) ----

\* ipaddress.ip_address on the strings the model uses: the four octets of a
\* dotted quad; a string outside the table does not parse.
Dotted ==
    ("8.8.8.8" :> <<8, 8, 8, 8>>) @@
    ("203.0.113.5" :> <<203, 0, 113, 5>>) @@
    ("192.0.2.9" :> <<192, 0, 2, 9>>) @@
    ("10.0.0.1" :> <<10, 0, 0, 1>>) @@
    ("172.16.5.4" :> <<172, 16, 5, 4>>) @@
    ("172.32.0.1" :> <<172, 32, 0, 1>>) @@
    ("192.168.1.1" :> <<192, 168, 1, 1>>) @@
    ("127.0.0.1" :> <<127, 0, 0, 1>>) @@
    ("169.254.169.254" :> <<169, 254, 169, 254>>) @@
    ("169.254.170.2" :> <<169, 254, 170, 2>>) @@
    ("100.100.100.200" :> <<100, 100, 100, 200>>)

METADATA_IPS == {"169.254.169.254", "169.254.170.2", "100.100.100.200"}

PRIV_RANGES ==
    << [base |-> <<10, 0, 0, 0>>, len |-> 8],
       [base |-> <<172, 16, 0, 0>>, len |-> 12],
       [base |-> <<192, 168, 0, 0>>, len |-> 16],
       [base |-> <<127, 0, 0, 0>>, len |-> 8],
       [base |-> <<169, 254, 0, 0>>, len |-> 16] >>

RECURSIVE Pow2(_)
Pow2(n) == IF n = 0 THEN 1 ELSE 2 * Pow2(n - 1)

Hi(ip) == ip[1] * 256 + ip[2]
Lo(ip) == ip[3] * 256 + ip[4]

\* `ip in net`: the leading len bits agree
InNet(ip, net) ==
    IF net.len <= 16
    THEN Hi(ip) \div Pow2(16 - net.len) = Hi(net.base) \div Pow2(16 - net.len)
    ELSE /\ Hi(ip) = Hi(net.base)
         /\ Lo(ip) \div Pow2(32 - net.len) = Lo(net.base) \div Pow2(32 - net.len)

\* is_private_ip_str: False when the string does not parse
is_private_ip_str(ip_str) ==
    /\ ip_str \in DOMAIN Dotted
    /\ \E n \in 1..Len(PRIV_RANGES) : InNet(Dotted[ip_str], PRIV_RANGES[n])

\* ---- the request's fields (src/app.py:231-256) ----

BODY_READ_MAX == 4096
PREVIEW_MAX == 2000

\* body[:4096].decode('utf-8', 'replace'): characters of width bytes each, a
\* cut character decoding to one replacement character
DecodedLen(body) ==
    (Min(body.bytes, BODY_READ_MAX) + body.width - 1) \div body.width

\* str.strip() of a string given as its pieces, " " a run of whitespace
RECURSIVE LStrip(_)
LStrip(s) == IF s # <<>> /\ Head(s) = " " THEN LStrip(Tail(s)) ELSE s
RECURSIVE RStrip(_)
RStrip(s) ==
    IF s # <<>> /\ s[Len(s)] = " " THEN RStrip(SubSeq(s, 1, Len(s) - 1)) ELSE s
Strip(s) == RStrip(LStrip(s))
Join(s) == IF s = <<>> THEN "" ELSE s[1]

\* the header is there and is not the empty string
XffTruthy(xff) == xff.present /\ xff.entries # << <<>> >>

\* (a faulty variant: the first entry is taken as it stands, not trimmed)
RemoteAddrUntrimmed(http) ==
    LET first == IF XffTruthy(http.xff) THEN Join(http.xff.entries[1]) ELSE ""
    IN IF first # "" THEN first ELSE http.peer

\* lines 236-241
RemoteAddr(http) ==
    LET first == IF XffTruthy(http.xff)
                 THEN Join(Strip(http.xff.entries[1]))
                 ELSE ""
    IN IF first # "" THEN first ELSE http.peer

\* line 244
AddrFlagged(remote_addr) ==
    is_private_ip_str(remote_addr) \/ remote_addr \in METADATA_IPS

\* line 248: host_hdr.split(':')[0] if host_hdr else ''
HostPart(host) == IF host = <<>> THEN "" ELSE host[1]

\* lines 249-252
HostFlagged(host_part) == host_part # "" /\ is_private_ip_str(host_part)

\* lines 242-256: the local `suspicious`
Classified(http) ==
    \/ (RemoteAddr(http) # "" /\ AddrFlagged(RemoteAddr(http)))
    \/ HostFlagged(HostPart(http.host))

\* (a faulty variant: the rate limiter's answer is left out)
EventSuspiciousAddrOnly(suspicious, ok_rate) == suspicious

\* line 265
EventSuspicious(suspicious, ok_rate) == suspicious \/ ~ok_rate

\* lines 257-275: the Event built for request r; hit names the request it is
\* for, body_preview and raw_body_preview are lengths in characters
NewEvent(r, remote_host) ==
    LET http == req[r].http
    IN [id |-> Len(events) + 1,
        hit |-> r,
        token |-> req[r].token,
        method |-> http.method,
        xff |-> http.xff,
        host |-> http.host,
        body_preview |-> Min(DecodedLen(http.body), PREVIEW_MAX),
        remote_addr |-> RemoteAddr(http),
        remote_host |-> IF RemoteAddr(http) # "" THEN remote_host ELSE "",
        suspicious |-> EventSuspicious(Classified(http), req[r].ok_rate),
        raw_body_preview |-> DecodedLen(http.body)]

\* (a faulty variant: a hit the rate limiter denied is not stored)
StoredIfAllowed(evs, ev) == IF req[ev.hit].ok_rate THEN Append(evs, ev) ELSE evs

\* lines 276-277: db.session.add(ev); db.session.commit()
Stored(evs, ev) == Append(evs, ev)

EventsOf(r) == {i \in 1..Len(events) : events[i].hit = r}

\* ---- the tokens table (src/app.py:196-225) ----

NoToken == [present |-> FALSE, active |-> FALSE, expires_at |-> <<>>]

\* what the row of token k says at time `at`
TokenStatus(k, at) ==
    IF ~tokens[k].present THEN "unknown"
    ELSE IF ~tokens[k].active THEN "inactive"
    ELSE IF tokens[k].expires_at # <<>> /\ tokens[k].expires_at[1] <= at THEN "expired"
    ELSE "active"

\* create_token_api: gen_token draws a token not in the table; expires_in of
\* 0 leaves expires_at empty
CreateToken(k, expires_in) ==
    /\ ~tokens[k].present
    /\ tokens' = [tokens EXCEPT ![k] =
          [present |-> TRUE, active |-> TRUE,
           expires_at |-> IF expires_in # 0 THEN <<clock + expires_in>> ELSE <<>>]]
    /\ UNCHANGED <<env, clock, rate_counters, rate_lock, req, events, worker>>

\* (a faulty variant: deactivating a token deletes the Events recorded on it)
DeactivateTokenPurging(k) ==
    /\ tokens[k].present
    /\ tokens' = [tokens EXCEPT ![k].active = FALSE]
    /\ events' = SelectSeq(events, LAMBDA e : e.token # k)
    /\ UNCHANGED <<env, clock, rate_counters, rate_lock, req, worker>>

\* deactivate_token: 404 when there is no such row
DeactivateToken(k) ==
    /\ tokens[k].present
    /\ tokens' = [tokens EXCEPT ![k].active = FALSE]
    /\ UNCHANGED <<env, clock, rate_counters, rate_lock, req, events, worker>>

\* list_tokens: a query, nothing is written
ListTokens == UNCHANGED vars

\* list_events (src/app.py:295-305): two queries, nothing is written
ListEvents == UNCHANGED vars

\* ---- the token endpoint (src/app.py:227-293) ----

ROUTE_METHODS == {"GET", "POST", "PUT", "PATCH", "DELETE", "HEAD", "OPTIONS"}

OK200 == [status |-> 200, body |-> "OK"]
Err405 == [status |-> 405, body |-> "Method Not Allowed"]
Err500 == [status |-> 500, body |-> "Internal Server Error"]
Err429 == [status |-> 429, body |-> "Too Many Requests"]

\* no request thread is between arrival and response
NoneInFlight == \A q \in Reqs : req[q].pc \in {"idle", "done"}

\* A request for /c/<token> arrives.  The route takes the methods of line 227;
\* any other method is answered 405 by the router and canary() is not run.
Arrive(r, hits, token, http) ==
    /\ req[r].pc = "idle"
    /\ r <= hits
    /\ \A q \in Reqs : q < r => req[q].pc # "idle"
    /\ IF http.method \in ROUTE_METHODS
       THEN req' = [req EXCEPT ![r].pc = "rl_now", ![r].token = token,
                               ![r].http = http]
       ELSE req' = [req EXCEPT ![r].pc = "done", ![r].token = token,
                               ![r].http = http, ![r].resp = Err405]
    /\ UNCHANGED <<env, clock, rate_counters, rate_lock, tokens, events, worker>>

\* line 230: t = Token.query.filter_by(token=token).first()
Lookup(r) ==
    /\ req[r].pc = "lookup"
    /\ req' = [req EXCEPT ![r].pc = "persist",
                          ![r].t = tokens[req[r].token].present,
                          ![r].tstatus = TokenStatus(req[r].token, clock)]
    /\ UNCHANGED <<env, clock, rate_counters, rate_lock, tokens, events, worker>>

\* (a faulty variant: the commit's exception is swallowed)
AfterCommitSwallowed(committed) == "alert"

\* where canary() goes after line 277: on when the commit returned, out with
\* the exception when it raised
AfterCommit(committed) == IF committed THEN "alert" ELSE "done"

\* lines 231-277: the fields are derived, the reverse lookup answers
\* remote_host ("" when it fails) and the Event is added and committed, or
\* the commit raises and the request ends in a server error
Persist(r, remote_host, committed) ==
    /\ req[r].pc = "persist"
    /\ events' = IF committed THEN Stored(events, NewEvent(r, remote_host))
                 ELSE events
    /\ req' = [req EXCEPT ![r].pc = AfterCommit(committed),
                          ![r].ev = NewEvent(r, remote_host),
                          ![r].committed = IF committed THEN "yes" ELSE "no",
                          ![r].resp = IF AfterCommit(committed) = "done"
                                      THEN Err500 ELSE @]
    /\ UNCHANGED <<env, clock, rate_counters, rate_lock, tokens, worker>>

\* lines 278-291
Payload(r) ==
    LET ev == req[r].ev
    IN [token |-> req[r].token,
        token_exists |-> req[r].t,
        remote_addr |-> ev.remote_addr,
        remote_host |-> ev.remote_host,
        suspicious |-> ev.suspicious,
        rate_ok |-> req[r].ok_rate]

NoPayload ==
    [token |-> "", token_exists |-> FALSE, remote_addr |-> "",
     remote_host |-> "", suspicious |-> FALSE, rate_ok |-> FALSE]

\* The alert thread of one request: started counts Thread.start(), calls
\* lists the calls of send_webhook and send_email it made, in order, webhook
\* and email are what became of the two deliveries.
NoWorker ==
    [pc |-> "none", started |-> 0, payload |-> NoPayload, calls |-> <<>>,
     webhook |-> "none", email |-> "none"]

\* line 292: alert_async(payload) starts the daemon thread and returns
Alert(r) ==
    /\ req[r].pc \in {"alert"}
    /\ worker' = [worker EXCEPT ![r].pc = "webhook",
                                ![r].started = @ + 1,
                                ![r].payload = Payload(r)]
    /\ req' = [req EXCEPT ![r].pc = "return"]
    /\ UNCHANGED <<env, clock, rate_counters, rate_lock, tokens, events>>

\* (a faulty variant: the handler joins its alert thread)
ReturnAfterJoin(r) == worker[r].pc = "done"

\* lines 192-194, 293: the thread is started and nothing is waited for
CanReturn(r) == TRUE

\* (a faulty variant: a denied hit is answered 429)
ResponseByRate(r) == IF req[r].ok_rate THEN OK200 ELSE Err429

\* line 293: the response, the same for every request
Response(r) == OK200

\* line 293: return ('OK', 200)
Return(r) ==
    /\ req[r].pc = "return"
    /\ CanReturn(r)
    /\ req' = [req EXCEPT ![r].pc = "done", ![r].resp = Response(r)]
    /\ UNCHANGED <<env, clock, rate_counters, rate_lock, tokens, events, worker>>

\* ---- the alert thread (src/app.py:152-194) ----

\* lines 183-186: send_webhook(p).  Without ALERT_WEBHOOK nothing is sent;
\* otherwise one POST, whose outcome (2xx, another status, an exception)
\* stays inside send_webhook.
WorkerWebhook(r, outcome) ==
    /\ worker[r].pc = "webhook"
    /\ worker' = [worker EXCEPT ![r].pc = "email",
                    ![r].calls = Append(@, "webhook"),
                    ![r].webhook = IF env.webhook THEN outcome ELSE "unset"]
    /\ UNCHANGED <<env, clock, rate_counters, rate_lock, req, tokens, events>>

\* (a faulty variant: the email is sent only after a delivered webhook)
EmailCalledAfterWebhook(r) == env.email /\ worker[r].webhook = "ok"

\* line 188: if ALERT_EMAIL
EmailCalled(r) == env.email

\* lines 187-191: send_email is called when ALERT_EMAIL is set; send_email
\* sends nothing without SMTP_HOST, and what goes wrong in it stays in it
WorkerEmail(r, outcome) ==
    /\ worker[r].pc = "email"
    /\ worker' = [worker EXCEPT ![r].pc = "done",
                    ![r].calls = IF EmailCalled(r) THEN Append(@, "email") ELSE @,
                    ![r].email = IF ~EmailCalled(r) THEN "skipped"
                                 ELSE IF ~env.smtp THEN "unset"
                                 ELSE outcome]
    /\ UNCHANGED <<env, clock, rate_counters, rate_lock, req, tokens, events>>

\* ---- construction ----

\* ALERT_WEBHOOK, ALERT_EMAIL, SMTP_HOST: set or not (src/app.py:21-23)
\* and RATE_LIMIT_MAX, RATE_LIMIT_WINDOW (src/app.py:31-32)
NoAlerts(max, window) ==
    [webhook |-> FALSE, email |-> FALSE, smtp |-> FALSE,
     rate_limit_max |-> max, rate_limit_window |-> window]
AllAlerts(max, window) ==
    [webhook |-> TRUE, email |-> TRUE, smtp |-> TRUE,
     rate_limit_max |-> max, rate_limit_window |-> window]

\* the process after import and init_db(), under one of the settings E
InitEnv(E) ==
    /\ env \in E
    /\ clock = 0
    /\ rate_counters = [k \in TokenStrs |-> <<>>]
    /\ rate_lock = 0
    /\ req = [r \in Reqs |-> IdleReq]
    /\ tokens = [k \in TokenStrs |-> NoToken]
    /\ events = <<>>
    /\ worker = [r \in Reqs |-> NoWorker]

Init == InitEnv({AllAlerts(1, 2)})

\* every way of setting or leaving out ALERT_WEBHOOK, ALERT_EMAIL, SMTP_HOST
AlertSettings ==
    {[webhook |-> w, email |-> e, smtp |-> m,
      rate_limit_max |-> 1, rate_limit_window |-> 2] :
        w \in BOOLEAN, e \in BOOLEAN, m \in BOOLEAN}

\* ---- the requests the model sends ----

Xff(entries) == [present |-> TRUE, entries |-> entries]
Http(method, xff, peer, host, body) ==
    [method |-> method, xff |-> xff, peer |-> peer, host |-> host, body |-> body]
Hit(token, http) == [token |-> token, http |-> http]

CanaryHost == <<"canary.example.com", "8443">>

\* one request per branch of lines 231-256, and one the route does not take
Requests ==
    { Hit("tokA", Http("GET", NoXff, "8.8.8.8", CanaryHost, NoBody)),
      Hit("tokB", Http("GET", NoXff, "8.8.8.8", CanaryHost, NoBody)),
      Hit("tokA", Http("POST", NoXff, "10.0.0.1", CanaryHost,
                       [bytes |-> 10000, width |-> 1])),
      Hit("tokA", Http("PUT", NoXff, "100.100.100.200", CanaryHost,
                       [bytes |-> 10000, width |-> 3])),
      Hit("tokA", Http("GET", NoXff, "172.32.0.1", <<"192.168.1.1", "8443">>, NoBody)),
      Hit("tokA", Http("GET", NoXff, "8.8.8.8", <<"100.100.100.200">>, NoBody)),
      Hit("tokA", Http("GET", NoXff, "8.8.8.8", <<"169.254.169.254">>, NoBody)),
      Hit("tokA", Http("GET", Xff(<< <<"203.0.113.5">>, <<" ", "10.0.0.1">> >>),
                       "192.0.2.9", CanaryHost, NoBody)),
      Hit("tokA", Http("GET", Xff(<< <<" ", "172.16.5.4", " ">>, <<"8.8.8.8">> >>),
                       "8.8.8.8", CanaryHost, NoBody)),
      Hit("tokA", Http("GET", Xff(<< <<" ">>, <<"8.8.8.8">> >>),
                       "127.0.0.1", <<"localhost">>, NoBody)),
      Hit("tokA", Http("GET", Xff(<< <<>> >>), "", <<>>, NoBody)),
      Hit("tokA", Http("TRACE", NoXff, "8.8.8.8", CanaryHost, NoBody)) }

\* public and private clients, a method off the route
SomeRequests ==
    { Hit("tokA", Http("GET", NoXff, "8.8.8.8", CanaryHost, NoBody)),
      Hit("tokA", Http("POST", NoXff, "10.0.0.1", CanaryHost, NoBody)),
      Hit("tokA", Http("TRACE", NoXff, "8.8.8.8", CanaryHost, NoBody)) }

\* public and private clients on one token
FewRequests ==
    { Hit("tokA", Http("GET", NoXff, "8.8.8.8", CanaryHost, NoBody)),
      Hit("tokA", Http("GET", NoXff, "10.0.0.1", CanaryHost, NoBody)) }

HostNames == {"", "host.example.net"}

\* ---- the rate limiter alone, called from MaxReq threads ----
NextRate ==
    \/ Tick
    \/ \E r \in Reqs, k \in TokenStrs : RateCall(r, k)
    \/ \E r \in Reqs : RateNow(r)
    \/ \E r \in Reqs : RateAcquire(r)
    \/ \E r \in Reqs : RateBody(r)
    \/ \E r \in Reqs : RateRelease(r, "done")

SpecRate == InitEnv({NoAlerts(1, 2)}) /\ [][NextRate]_vars

\* ---- the service, its requests arriving one after the other ----
\* The clock stands still here: time reaches the handler only through the
\* rate limiter (SpecRate) and through a token's expires_at, which
\* create_token sets in the past when expires_in is negative.
Next ==
    \/ \E r \in Reqs, q \in SomeRequests : NoneInFlight /\ Arrive(r, MaxHits, q.token, q.http)
    \/ \E r \in Reqs : RateNow(r)
    \/ \E r \in Reqs : RateAcquire(r)
    \/ \E r \in Reqs : RateBody(r)
    \/ \E r \in Reqs : RateRelease(r, "lookup")
    \/ \E r \in Reqs : Lookup(r)
    \/ \E r \in Reqs, h \in HostNames, c \in BOOLEAN : Persist(r, h, c)
    \/ \E r \in Reqs : Alert(r)
    \/ \E r \in Reqs : Return(r)
    \/ \E r \in Reqs, o \in {"ok", "error"} : WorkerWebhook(r, o)
    \/ \E r \in Reqs : WorkerEmail(r, "failed")
    \/ \E e \in {0, 0 - 1} : CreateToken("tokA", e)
    \/ DeactivateToken("tokA")
    \/ ListTokens
    \/ ListEvents

Spec == Init /\ [][Next]_vars

\* ---- the service under a burst of concurrent requests, all handled before
\* ---- the clock moves on
NextConc ==
    \/ \E r \in Reqs, q \in FewRequests : Arrive(r, MaxConc, q.token, q.http)
    \/ \E r \in Reqs : RateNow(r)
    \/ \E r \in Reqs : RateAcquire(r)
    \/ \E r \in Reqs : RateBody(r)
    \/ \E r \in Reqs : RateRelease(r, "lookup")
    \/ \E r \in Reqs : Lookup(r)
    \/ \E r \in Reqs, c \in BOOLEAN : Persist(r, "", c)
    \/ \E r \in Reqs : Alert(r)
    \/ \E r \in Reqs : Return(r)
    \/ \E r \in Reqs : WorkerWebhook(r, "failed")
    \/ \E r \in Reqs : WorkerEmail(r, "ok")

SpecConc == InitEnv({AllAlerts(1, 2)}) /\ [][NextConc]_vars

\* ---- the service under requests of every shape, one after the other ----
NextFields ==
    \/ \E r \in Reqs, q \in Requests : NoneInFlight /\ Arrive(r, MaxHits, q.token, q.http)
    \/ \E r \in Reqs : RateNow(r)
    \/ \E r \in Reqs : RateAcquire(r)
    \/ \E r \in Reqs : RateBody(r)
    \/ \E r \in Reqs : RateRelease(r, "lookup")
    \/ \E r \in Reqs : Lookup(r)
    \/ \E r \in Reqs, h \in HostNames : Persist(r, h, TRUE)
    \/ \E r \in Reqs : Alert(r)
    \/ \E r \in Reqs : Return(r)
    \/ \E r \in Reqs : WorkerWebhook(r, "ok")
    \/ \E r \in Reqs : WorkerEmail(r, "ok")

SpecFields == InitEnv({AllAlerts(1, 2)}) /\ [][NextFields]_vars

\* ---- the service under every alert setting and every outcome of the two
\* ---- deliveries: 2xx ("ok"), another status or False ("failed"), an
\* ---- exception ("error")
Outcomes == {"ok", "failed", "error"}

NextAlert ==
    \/ \E r \in Reqs, q \in FewRequests : NoneInFlight /\ Arrive(r, MaxHits, q.token, q.http)
    \/ \E r \in Reqs : RateNow(r)
    \/ \E r \in Reqs : RateAcquire(r)
    \/ \E r \in Reqs : RateBody(r)
    \/ \E r \in Reqs : RateRelease(r, "lookup")
    \/ \E r \in Reqs : Lookup(r)
    \/ \E r \in Reqs, c \in BOOLEAN : Persist(r, "", c)
    \/ \E r \in Reqs : Alert(r)
    \/ \E r \in Reqs : Return(r)
    \/ \E r \in Reqs, o \in Outcomes : WorkerWebhook(r, o)
    \/ \E r \in Reqs, o \in Outcomes : WorkerEmail(r, o)

SpecAlert == InitEnv(AlertSettings) /\ [][NextAlert]_vars

\* ---- the rate limiter's claims ----

\* all the given calls took their `now` inside one window
OneWindow(D) ==
    \A a \in D, b \in D : req[a].now - req[b].now <= RATE_LIMIT_WINDOW

AllowedOf(D) == {r \in D : req[r].ok_rate}

\* C1: when the N calls recorded so far on a key, in whatever order they took
\* their clock reading and the lock, all fall inside one window, the key's
\* sequence holds exactly N timestamps (no hit is lost) and exactly
\* min(N, RATE_LIMIT_MAX) of the calls returned allowed=true.
C1_NoLostHit ==
    \A k \in TokenStrs :
        LET D == HitsOn(k)
        IN OneWindow(D) =>
              /\ Len(rate_counters[k]) = Cardinality(D)
              /\ Cardinality(AllowedOf(D)) = Min(Cardinality(D), RATE_LIMIT_MAX)

\* More calls than the limit on one key in one window, recorded in an order
\* other than the order of their clock readings.
C1_Witness ==
    \E k \in TokenStrs :
        /\ Cardinality(HitsOn(k)) > RATE_LIMIT_MAX
        /\ OneWindow(HitsOn(k))
        /\ \E i \in 1..(Len(rate_counters[k]) - 1) :
               rate_counters[k][i] > rate_counters[k][i + 1]

\* C2: of the calls on one key that all fall inside a single window, starting
\* from no prior hits, the first RATE_LIMIT_MAX return allowed=true and the
\* (RATE_LIMIT_MAX+1)-th and every further one return allowed=false.
C2_FirstMaxAllowed ==
    \A r \in Reqs :
        (RateDone(r) /\ OneWindow(HitsOn(req[r].token)))
            => (req[r].ok_rate <=> req[r].nth <= RATE_LIMIT_MAX)

\* The MAX-th call was allowed, the (MAX+1)-th and the (MAX+2)-th were denied.
C2_Witness ==
    \E a \in Reqs, b \in Reqs, c \in Reqs :
        /\ RateDone(a) /\ RateDone(b) /\ RateDone(c)
        /\ req[a].token = req[b].token /\ req[b].token = req[c].token
        /\ OneWindow(HitsOn(req[a].token))
        /\ req[a].nth = RATE_LIMIT_MAX /\ req[a].ok_rate
        /\ req[b].nth = RATE_LIMIT_MAX + 1 /\ ~req[b].ok_rate
        /\ req[c].nth = RATE_LIMIT_MAX + 2 /\ ~req[c].ok_rate

\* the call found earlier hits on its key, the latest of them more than
\* RATE_LIMIT_WINDOW before its own `now`
AfterWindow(r) ==
    /\ RateDone(r)
    /\ req[r].before # <<>>
    /\ \A i \in 1..Len(req[r].before) :
           req[r].before[i] + RATE_LIMIT_WINDOW < req[r].now

\* C3: a call made more than RATE_LIMIT_WINDOW after the most recent hit on
\* its key returns allowed=true, however many hits the key had before.
C3_RecoversAfterWindow ==
    \A r \in Reqs : AfterWindow(r) => req[r].ok_rate

\* A call after the window on a key that had been driven over the limit.
C3_Witness ==
    \E r \in Reqs :
        /\ AfterWindow(r)
        /\ Len(req[r].before) > RATE_LIMIT_MAX
        /\ req[r].ok_rate

\* ---- the token endpoint's claims ----

Committed(r) == req[r].committed = "yes"
Responded(r) == req[r].resp.status # 0
TheEvent(r) == events[CHOOSE i \in EventsOf(r) : TRUE]

\* C4: a request canary() handles whose commit succeeds has exactly one Event,
\* carrying the requested token, whatever the token's standing and whatever
\* the rate limiter answered; a request has no Event before that or when the
\* commit failed, and no request canary() handled ends without the commit
\* having been attempted.
C4_OneEventPerHit ==
    \A r \in Reqs :
        /\ Committed(r) =>
              /\ Cardinality(EventsOf(r)) = 1
              /\ TheEvent(r).token = req[r].token
        /\ ~Committed(r) => EventsOf(r) = {}
        /\ (req[r].pc = "done" /\ req[r].http.method \in ROUTE_METHODS)
              => req[r].committed # ""

\* An allowed hit on a token not in the table and a denied hit on an expired
\* token are both recorded.
C4_Witness ==
    \E a \in Reqs, b \in Reqs :
        /\ Committed(a) /\ req[a].tstatus = "unknown" /\ req[a].ok_rate
        /\ Committed(b) /\ req[b].tstatus = "expired" /\ ~req[b].ok_rate
        /\ Cardinality(EventsOf(a)) = 1 /\ Cardinality(EventsOf(b)) = 1

EventsOn(k) == {i \in 1..Len(events) : events[i].token = k}

\* C5: when the hits on one token all fall inside one window, every hit whose
\* commit succeeded has its Event, and of the N Events on the token at least
\* N - RATE_LIMIT_MAX carry suspicious=true, public addresses or not.
C5_RapidFire ==
    /\ \A r \in Reqs : Committed(r) => Cardinality(EventsOf(r)) = 1
    /\ \A k \in TokenStrs :
          OneWindow(HitsOn(k)) =>
              Cardinality({i \in EventsOn(k) : events[i].suspicious})
                  >= Cardinality(EventsOn(k)) - RATE_LIMIT_MAX

\* More Events than the limit on one token, all from a public client with a
\* public Host, committed in another order than the limiter saw the hits, and
\* one of them suspicious.
C5_Witness ==
    \E k \in TokenStrs :
        /\ Cardinality(EventsOn(k)) > RATE_LIMIT_MAX
        /\ \A i \in EventsOn(k) : ~Classified(req[events[i].hit].http)
        /\ \E i \in EventsOn(k) : events[i].suspicious
        /\ \E i \in EventsOn(k), j \in EventsOn(k) :
              i < j /\ req[events[i].hit].nth > req[events[j].hit].nth

\* C6: an Event is suspicious exactly when its client address fails the check
\* of line 244 (private range or metadata address), or the Host header's host
\* part fails that check, or the rate limiter denied the hit.
C6_SuspiciousIffAnyCheck ==
    \A i \in 1..Len(events) :
        events[i].suspicious <=>
            \/ AddrFlagged(events[i].remote_addr)
            \/ AddrFlagged(HostPart(events[i].host))
            \/ ~req[events[i].hit].ok_rate

\* C7: any two requests whose Events were committed and that were answered
\* got the same response, 200 "OK".
C7_OpaqueResponse ==
    \A a \in Reqs, b \in Reqs :
        (Committed(a) /\ Responded(a) /\ Committed(b) /\ Responded(b))
            => (req[a].resp = req[b].resp /\ req[a].resp = OK200)

\* Two answered requests that differ in the token's standing, in the
\* classification and in the rate limiter's answer.
C7_Witness ==
    \E a \in Reqs, b \in Reqs :
        /\ Committed(a) /\ Responded(a) /\ Committed(b) /\ Responded(b)
        /\ req[a].tstatus = "active" /\ req[b].tstatus = "inactive"
        /\ Classified(req[a].http) # Classified(req[b].http)
        /\ req[a].ok_rate /\ ~req[b].ok_rate

\* C8: a hit is answered with something other than 200 "OK" exactly when its
\* commit failed; then the answer is a server error and the hit has no Event.
C8_OnlyPersistenceFails ==
    \A r \in Reqs :
        Responded(r) =>
            /\ req[r].resp # OK200 <=> req[r].committed = "no"
            /\ req[r].committed = "no" =>
                  (req[r].resp.status = 500 /\ EventsOf(r) = {})

\* C9: a hit starts at most one alert thread, starts it only once its Event
\* is committed, has started exactly one by the time it is answered 200, and
\* starts none when the commit failed.
C9_AlertOnceAfterCommit ==
    \A r \in Reqs :
        /\ worker[r].started <= 1
        /\ worker[r].started > 0 => (Committed(r) /\ EventsOf(r) # {})
        /\ req[r].resp = OK200 => worker[r].started = 1
        /\ req[r].committed = "no" => (worker[r].started = 0 /\ worker[r].pc = "none")

\* One hit failed to commit and started nothing while another, committed,
\* has its thread running.
C9_Witness ==
    \E a \in Reqs, b \in Reqs :
        /\ req[a].committed = "no" /\ req[a].resp = Err500 /\ worker[a].started = 0
        /\ Committed(b) /\ worker[b].started = 1 /\ worker[b].pc = "webhook"

\* the alert thread of some hit takes a step
WorkerStep ==
    \E r \in Reqs : worker[r].pc \in {"webhook", "email"} /\ worker'[r] # worker[r]

\* C10: at line 293 the handler can return whatever its alert thread is doing
\* (not yet run, in a delivery, or done after a failed delivery), and a step
\* of an alert thread changes nothing the handlers use.
C10_AlertNeverBlocks ==
    /\ [](\A r \in Reqs : req[r].pc = "return" => ENABLED Return(r))
    /\ [][WorkerStep => UNCHANGED <<req, events, tokens, rate_counters, rate_lock>>]_vars

\* One request was answered while its thread had not run, another while its
\* thread had a failed webhook delivery behind it.
C10_Witness ==
    \E a \in Reqs, b \in Reqs :
        /\ req[a].resp = OK200 /\ worker[a].pc = "webhook"
        /\ req[b].resp = OK200 /\ worker[b].pc = "email" /\ worker[b].webhook = "failed"

\* C11: the payload's token_exists is true exactly when, at the moment of the
\* hit, the tokens table has the token, active and not expired.
C11_TokenExistsIffResolves ==
    \A r \in Reqs :
        worker[r].started > 0 =>
            (worker[r].payload.token_exists <=> req[r].tstatus = "active")

\* C12: every answered request whose commit did not fail, whatever its
\* method, was answered 200 "OK" and has its Event.
C12_MethodAgnostic ==
    \A r \in Reqs :
        (Responded(r) /\ req[r].committed # "no") =>
            (req[r].resp = OK200 /\ EventsOf(r) # {})

\* the values the requests received so far carry as the Host header's host
\* part or as the derived client address
ValuesSeen ==
    {HostPart(req[r].http.host) : r \in {q \in Reqs : req[q].pc # "idle"}}
        \cup {RemoteAddr(req[r].http) : r \in {q \in Reqs : req[q].pc # "idle"}}

\* C13: for every value v, the Host check of lines 249-252 flags v exactly
\* when the address check of line 244 flags v.
C13_HostCheckIsAddrCheck ==
    \A v \in ValuesSeen : HostFlagged(v) <=> AddrFlagged(v)

\* the first comma-separated entry of X-Forwarded-For, trimmed; empty when
\* the header is absent
TrimmedFirst(http) ==
    IF http.xff.present /\ http.xff.entries # <<>>
    THEN Strip(http.xff.entries[1])
    ELSE <<>>

\* the address the derivation is to give
DerivedAddr(http) ==
    IF TrimmedFirst(http) # <<>> THEN Join(TrimmedFirst(http)) ELSE http.peer

\* C14: an Event's remote address is the trimmed first X-Forwarded-For entry
\* when the header is present and that entry is not empty after trimming,
\* and the peer address otherwise; that address is the one the address check
\* classified and the one in the alert payload.
C14_AddressDerivation ==
    /\ \A i \in 1..Len(events) :
          LET http == req[events[i].hit].http
          IN /\ events[i].remote_addr = DerivedAddr(http)
             /\ (req[events[i].hit].ok_rate /\ ~HostFlagged(HostPart(http.host)))
                   => (events[i].suspicious <=> AddrFlagged(DerivedAddr(http)))
    /\ \A r \in Reqs :
          worker[r].started > 0 =>
              /\ worker[r].payload.remote_addr = DerivedAddr(req[r].http)
              /\ worker[r].payload.remote_addr = TheEvent(r).remote_addr

\* One Event took the first of two forwarded entries over the peer, another
\* fell back to the peer behind a whitespace-only first entry, and its alert
\* is under way.
C14_Witness ==
    \E i \in 1..Len(events), j \in 1..Len(events) :
        /\ req[events[i].hit].http.peer = "192.0.2.9"
        /\ Len(events[i].xff.entries) = 2
        /\ events[i].remote_addr = "203.0.113.5"
        /\ events[j].xff.present
        /\ TrimmedFirst(req[events[j].hit].http) = <<>>
        /\ events[j].remote_addr = "127.0.0.1"
        /\ worker[events[j].hit].payload.remote_addr = "127.0.0.1"

\* C15: whatever the body's length, every copy of the preview an Event
\* stores (the body_preview field and the body_preview inside raw) comes from
\* at most BODY_READ_MAX bytes and is at most PREVIEW_MAX characters long.
C15_BodyCaptureBounded ==
    \A i \in 1..Len(events) :
        /\ events[i].body_preview <= BODY_READ_MAX
        /\ events[i].raw_body_preview <= BODY_READ_MAX
        /\ events[i].body_preview <= PREVIEW_MAX
        /\ events[i].raw_body_preview <= PREVIEW_MAX

\* the step stores an Event: the handler of some request leaves line 277
CanaryCommits ==
    \E r \in Reqs : req[r].pc = "persist" /\ req'[r].committed = "yes"

\* C16: no step (create_token, deactivate_token, a step of a canary hit or
\* of its alert thread, list_events, list_tokens) removes or changes an Event
\* already stored, and the only step that adds one is a canary handler's
\* commit, which adds exactly one at the end.
C16_EventsAppendOnly ==
    [][/\ Len(events') >= Len(events)
       /\ \A i \in 1..Len(events) : events'[i] = events[i]
       /\ events' # events =>
             (CanaryCommits /\ Len(events') = Len(events) + 1)]_vars

\* Two Events are stored, the first from a hit made while its token was
\* active, and the token has since been deactivated.
C16_Witness ==
    /\ Len(events) = 2
    /\ req[events[1].hit].tstatus = "active"
    /\ tokens[events[1].token].present
    /\ ~tokens[events[1].token].active

\* ---- the rate limiter's sequences ----

\* C17: in every reachable state each key's timestamp sequence is in
\* non-decreasing order.
C17_MonotoneAppend ==
    \A k \in TokenStrs :
        \A i \in 1..(Len(rate_counters[k]) - 1) :
            rate_counters[k][i] <= rate_counters[k][i + 1]

\* C18: when a call has finished the locked section (the lock not yet handed
\* on), every timestamp in its key's sequence is at least the call's
\* now - RATE_LIMIT_WINDOW.
C18_PrunedToWindow ==
    \A r \in Reqs :
        req[r].pc = "rl_unlock" =>
            \A i \in 1..Len(rate_counters[req[r].token]) :
                rate_counters[req[r].token][i] >= req[r].now - RATE_LIMIT_WINDOW

\* thread r runs the locked section of record_and_check_rate in this step
RateStep(r) == req[r].pc = "rl_body" /\ req'[r].pc = "rl_unlock"

\* C20: a call record_and_check_rate(k) leaves every other key's sequence as
\* it was and leaves on k what was left of k's sequence after dropping a
\* prefix, plus exactly one timestamp, its own now, allowed or denied; its
\* answer is decided by k's sequence alone, so a call that finds no hits on
\* its key is allowed; no other step touches the sequences.
C20_PerKeyIsolation ==
    [][/\ (\A r \in Reqs : ~RateStep(r)) => rate_counters' = rate_counters
       /\ \A r \in Reqs :
             RateStep(r) =>
                LET k == req[r].token
                    old == rate_counters[k]
                    new == rate_counters'[k]
                IN /\ \A j \in TokenStrs \ {k} : rate_counters'[j] = rate_counters[j]
                   /\ Len(new) >= 1
                   /\ new[Len(new)] = req[r].now
                   /\ \E d \in 0..Len(old) :
                         SubSeq(new, 1, Len(new) - 1) = SubSeq(old, d + 1, Len(old))
                   /\ req'[r].ok_rate <=> Len(new) <= RATE_LIMIT_MAX
                   /\ old = <<>> => req'[r].ok_rate]_vars

\* With one key over the limit and a call on it denied, the first call on
\* the other key has just been recorded and is allowed.
C20_Witness ==
    \E a \in Reqs, b \in Reqs :
        /\ req[a].pc = "done" /\ ~req[a].ok_rate
        /\ Len(rate_counters[req[a].token]) > RATE_LIMIT_MAX
        /\ req[b].pc = "rl_unlock" /\ req[b].token # req[a].token
        /\ req[b].before = <<>> /\ req[b].ok_rate
        /\ rate_counters[req[b].token] = <<req[b].now>>

\* ---- the alert thread's claims ----

\* C19: an alert thread calls send_webhook first and send_email after it,
\* each at most once; whatever became of the webhook (delivered, refused, an
\* exception, none configured) the thread goes on to the email step and
\* calls send_email exactly when ALERT_EMAIL is set, and whatever became of
\* the email the thread ends.
C19_WebhookThenEmail ==
    \A r \in Reqs :
        /\ worker[r].calls \in {<<>>, <<"webhook">>, <<"webhook", "email">>}
        /\ worker[r].pc \in {"none", "webhook"} => worker[r].calls = <<>>
        /\ worker[r].pc = "email" =>
              /\ worker[r].calls = <<"webhook">>
              /\ worker[r].webhook \in Outcomes \cup {"unset"}
        /\ worker[r].pc = "done" =>
              /\ worker[r].calls =
                    IF env.email THEN <<"webhook", "email">> ELSE <<"webhook">>
              /\ worker[r].email = "skipped" <=> ~env.email
        /\ worker[r].webhook # "none" => worker[r].pc \in {"email", "done"}
        /\ worker[r].email # "none" => worker[r].pc = "done"

\* One thread ended after a webhook exception and a failed email, another
\* after a refused webhook and an email exception, each having made both
\* calls in order.
C19_Witness ==
    \E a \in Reqs, b \in Reqs :
        /\ worker[a].pc = "done" /\ worker[a].webhook = "error"
        /\ worker[a].email = "failed" /\ worker[a].calls = <<"webhook", "email">>
        /\ worker[b].pc = "done" /\ worker[b].webhook = "failed"
        /\ worker[b].email = "error" /\ worker[b].calls = <<"webhook", "email">>

====
